---------------------------- MODULE Spec2Model ----------------------------
(***************************************************************************)
(* A model of the contest test harness: the stream comparison of           *)
(* contest/TestCase.py (check_streams and its mismatch localization), the  *)
(* case filter of contest/runner.py (filter_tests), the execution of one   *)
(* test case (TestCase.execute) and the suite loop of runner.test.         *)
(*                                                                         *)
(* Strings are sequences of one-character strings; a list of lines is a    *)
(* sequence of such lines. Python indices are 0-based and are kept so in   *)
(* every operator's parameters and results.                                *)
(***************************************************************************)
EXTENDS Integers, Sequences, FiniteSets, TLC

(***************************************************************************)
(* Bounds of the model.                                                    *)
(***************************************************************************)
MaxLines == 3
MaxStart == 2
MaxCount == 3
MaxCalls == 2
MaxStrLen == 6
MaxNameLen == 2
MaxFilters == 2
MaxTests == 2
MaxOfstreams == 3
MaxPlugins == 1
MaxSetup == 2
MaxBuilds == 2
MaxCmd == 2
MaxArgv == 2
MaxOutLen == 4

(***************************************************************************)
(* Values.                                                                 *)
(***************************************************************************)
\* The characters strings are made of.
Chars == {"a", "b"}

\* The lines a stream is made of: two different lines, one a prefix of the other.
StreamLines == {<<"a">>, <<"a", "b">>}

\* The lines an expectation's text is made of: a text given as a list is kept as
\* it is, and may hold the empty string; lines split from an output never do.
TextLines == StreamLines \cup {<<>>}

\* Python's None where a line is expected (zip_longest's fill value); no line equals it.
None == <<"None">>

Min(x, y) == IF x <= y THEN x ELSE y

Max(x, y) == IF x >= y THEN x ELSE y

\* All sequences over S of length at most n.
SeqsUpTo(S, n) == UNION {[1..k -> S] : k \in 0..n}

\* Python's s[i:j] for 0 <= i <= j.
Slice(s, i, j) == SubSeq(s, i + 1, Min(j, Len(s)))

\* Python's s[i] (0-based) of a list, or None past its end: zip_longest's pairing.
ItemOrNone(s, i) == IF i < Len(s) THEN s[i + 1] ELSE None

(***************************************************************************)
(* Mismatch localization: TestCase.check_streams, lines 217-229.           *)
(***************************************************************************)
\* WindowOffset without the for loop's else branch: a zip that ends without a
\* difference leaves the offset at the start of the window.
WindowOffset_NoElse(s1, s2) ==
  LET n == Min(Len(s1), Len(s2))
      diff == {k \in 0..(n - 1) : s1[k + 1] # s2[k + 1]}
  IN IF diff # {} THEN CHOOSE k \in diff : \A j \in diff : k <= j ELSE 0

\* The for/else over zip(s1, s2): the first index at which the two windows differ,
\* or min(len(s1), len(s2)) when the zip ends without a difference.
WindowOffset(s1, s2) ==
  LET n == Min(Len(s1), Len(s2))
      diff == {k \in 0..(n - 1) : s1[k + 1] # s2[k + 1]}
  IN IF diff # {} THEN CHOOSE k \in diff : \A j \in diff : k <= j ELSE n

\* The length of a window of the scan.
Stride == 5

\* What the scan yields when its loop never ends: past the end of both strings
\* every further pair of windows is a pair of empty strings, which are equal.
Hang == -2

\* The while True loop from offset i on: windows of Stride characters are compared,
\* and the first pair of windows that differ is scanned character by character.
RECURSIVE StrideScan(_, _, _)
StrideScan(e, r, i) ==
  LET s1 == Slice(e, i, i + Stride)
      s2 == Slice(r, i, i + Stride)
  IN IF s1 # s2 THEN i + WindowOffset(s1, s2)
     ELSE IF i >= Len(e) /\ i >= Len(r) THEN Hang
     ELSE StrideScan(e, r, i + Stride)

\* A missing side (None) is the empty string when the offset is computed.
NoneToEmpty(s) == IF s = None THEN <<>> ELSE s

\* The offset of the caret under an unequal pair (e, r).
ErrorOffset(e, r) == StrideScan(NoneToEmpty(e), NoneToEmpty(r), 0)

(***************************************************************************)
(* TestCase.check_streams.                                                 *)
(*                                                                         *)
(* An expectation is the dictionary _setup_ostream returns: start and      *)
(* count are always present, text and empty may be absent (hasText,        *)
(* hasEmpty). What was received is a list of lines or an open file, which  *)
(* iterates over its lines and is true as a condition whatever it holds.   *)
(***************************************************************************)
\* bool(received): a list is true when it is not empty, a file object always.
Truthy(received) == received.kind = "file" \/ Len(received.lines) > 0

\* What a call returns or raises ("none": it returns result; "hang": it never
\* returns), and how many lines of received it consumed.
StreamResult(exc, result, line, offset, consumed) ==
  [exc |-> exc, result |-> result, line |-> line, offset |-> offset, consumed |-> consumed]

\* BeforeStart that skips nothing: the lines before start are compared too.
BeforeStart_Never(n, start) == FALSE

\* line_number < expected['start']: the pair is skipped without being compared.
BeforeStart(n, start) == n < start

\* line_number - expected['start'] + 1 == expected['count']: the loop breaks.
CountReached(n, start, count) == n - start + 1 = count

\* The for loop over enumerate(zip_longest(expected['text'], received)) from
\* line_number n on.
RECURSIVE LineLoop(_, _, _, _, _)
LineLoop(text, lines, start, count, n) ==
  IF n >= Max(Len(text), Len(lines))
  THEN StreamResult("none", 0, n, -1, Len(lines))
  ELSE LET e == ItemOrNone(text, n)
           r == ItemOrNone(lines, n)
       IN IF BeforeStart(n, start)
          THEN LineLoop(text, lines, start, count, n + 1)
          ELSE IF e # r
          THEN LET i == ErrorOffset(e, r)
               IN StreamResult(IF i = Hang THEN "hang" ELSE "none", 1, n, i,
                               Min(n + 1, Len(lines)))
          ELSE IF CountReached(n, start, count)
          THEN StreamResult("none", 0, n, -1, Min(n + 1, Len(lines)))
          ELSE LineLoop(text, lines, start, count, n + 1)

\* EmptinessFails with the test of empty=true lost: only empty=false is enforced.
EmptinessFails_OnlyNonempty(expected, received) ==
  /\ expected.hasEmpty
  /\ ~expected.empty /\ ~Truthy(received)

\* The emptiness test that returns 1 before any line is compared.
EmptinessFails(expected, received) ==
  /\ expected.hasEmpty
  /\ \/ expected.empty /\ Truthy(received)
     \/ ~expected.empty /\ ~Truthy(received)

check_streams(expected, received) ==
  IF EmptinessFails(expected, received)
  THEN StreamResult("none", 1, -1, -1, 0)
  ELSE IF ~expected.hasText
  THEN StreamResult("KeyError", 0, -1, -1, 0)
  ELSE LineLoop(expected.text, received.lines, expected.start, expected.count, 0)

(***************************************************************************)
(* runner.filter_tests. The patterns are literal ones, for which           *)
(* re.search(pattern, name) says whether pattern is a substring of name    *)
(* (the empty pattern is found in every name).                             *)
(***************************************************************************)
re_search(pattern, name) ==
  \E i \in 0..(Len(name) - Len(pattern)) : SubSeq(name, i + 1, i + Len(pattern)) = pattern

\* A for loop over patterns from the i-th on that returns at the first match.
RECURSIVE FirstMatch(_, _, _)
FirstMatch(patterns, name, i) ==
  IF i > Len(patterns) THEN FALSE
  ELSE IF re_search(patterns[i], name) THEN TRUE
  ELSE FirstMatch(patterns, name, i + 1)

\* filter_tests with the include patterns tried before the exclude patterns.
filter_tests_IncludesFirst(case_name, includes, excludes) ==
  IF Len(includes) > 0 /\ FirstMatch(includes, case_name, 1) THEN TRUE
  ELSE IF FirstMatch(excludes, case_name, 1) THEN FALSE
  ELSE Len(includes) = 0

filter_tests(case_name, includes, excludes) ==
  IF FirstMatch(excludes, case_name, 1) THEN FALSE
  ELSE IF Len(includes) = 0 THEN TRUE
  ELSE IF FirstMatch(includes, case_name, 1) THEN TRUE
  ELSE FALSE

(***************************************************************************)
(* State.                                                                  *)
(***************************************************************************)
VARIABLES
  expected,   \* check_streams: the expectation passed in
  received,   \* check_streams: the lines received, a list or an open file
  results,    \* check_streams: what each call so far returned
  locE,       \* localization: the expected line of an unequal pair (or None)
  locR,       \* localization: the received line of the pair (or None)
  locOff,     \* localization: the offset reported, -1 before the scan
  fName,      \* filter_tests: the case name
  fIncludes,  \* filter_tests: the include patterns, in order
  fExcludes,  \* filter_tests: the exclude patterns, in order
  fKept,      \* filter_tests: "pending" before the call, then "kept" or "dropped"
  suitePc,    \* runner.test: "loop", "break" (fail-fast), "done" or "crashed"
  nTests,     \* runner.test: number_of_tests_to_run, the length of tests
  failFast,   \* runner.test: whether the suite stops at the first failing case
  started,    \* runner.test: how many cases the loop has called execute() on
  errors,     \* runner.test: the suite's errors
  history,    \* per case that returned: its failed checks (0, 1, or 2 for more)
  tally,      \* the passed count of the tally line, -1 before it is printed
  exitValue,  \* the value test() returns to sys.exit, -1 before
  logLabel,   \* logger_format_fields['test_case']: "runner" or "case"
  pc,         \* execute: the statement the current case is at, "idle" between cases
  cwd,        \* the process's working directory: "harness" or "test_home"
  old_path,   \* ChangeDirectory.old_path
  cErrors,    \* execute: errors
  diags,      \* execute: the failure diagnostics logged so far
  okLogged,   \* execute: whether 'OK!' was logged
  return_code, \* TestCase.return_code: declared or not (None), and its value
  proc,       \* execute: proc, unbound until run() returns
  spawn,      \* what run() did: "none" yet, "ok", "timeout" or "nospawn"
  nOfs,       \* len(self.ofstreams)
  ofsIdx,     \* how many ofstreams were checked without an exception
  nPlugins,   \* len(self.extra_tests)
  plgIdx,     \* how many plugins returned
  missingAt,  \* the ofstream (1-based) whose test-file was not found, 0 if none
  last,       \* how the last call of execute ended: returned a value or raised
  caseSpec,   \* the mappings and setup commands of one case, as the loader holds them
  loaded,     \* caseSpec as it was loaded from the configuration
  built,      \* what each construction of a TestCase from caseSpec came to
  fs,         \* the file system: what exists under the suite root and outside it
  cmd,        \* _setup_test_process: the command string, as words and blanks
  argv,       \* _setup_test_process: the arguments
  test_args,  \* _setup_test_process: the list it returned
  resolvePc,  \* _setup_test_process: "pending" before the call, then "done"
  uStream,    \* the stream a case declares nothing for: "stdout" or "stderr"
  uOutput,    \* what the subprocess wrote to that stream, as one string
  uBuilt,     \* the expectation the constructor made for that stream, once made
  uResults    \* what the check of that stream returned, once made

streamVars == <<expected, received, results>>
locVars == <<locE, locR, locOff>>
filterVars == <<fName, fIncludes, fExcludes, fKept>>
suiteVars == <<suitePc, nTests, failFast, started, errors, history, tally, exitValue, logLabel>>
caseVars == <<pc, cwd, old_path, cErrors, diags, okLogged, return_code, proc, spawn,
              nOfs, ofsIdx, nPlugins, plgIdx, missingAt, last>>
constructVars == <<caseSpec, loaded, built>>
processVars == <<fs, cmd, argv, test_args, resolvePc>>
undeclaredVars == <<uStream, uOutput, uBuilt, uResults>>
setupVars == <<processVars, undeclaredVars>>
vars == <<streamVars, locVars, filterVars, suiteVars, caseVars, constructVars, setupVars>>

\* The parts of the state a specification does not use stay as they are here.
StreamsUnused ==
  /\ expected = [hasEmpty |-> FALSE, empty |-> FALSE, hasText |-> TRUE,
                 text |-> <<>>, start |-> 0, count |-> -1]
  /\ received = [kind |-> "list", lines |-> <<>>]
  /\ results = <<>>

LocUnused == locE = <<>> /\ locR = <<>> /\ locOff = -1

FilterUnused == fName = <<>> /\ fIncludes = <<>> /\ fExcludes = <<>> /\ fKept = "pending"

Unbound == [bound |-> FALSE, returncode |-> 0]

NotCalled == [how |-> "none", value |-> 0, exc |-> "none"]

\* The suite before its loop, no case being executed.
SuiteAtStart ==
  /\ suitePc = "loop" /\ started = 0 /\ errors = 0 /\ history = <<>>
  /\ tally = -1 /\ exitValue = -1 /\ logLabel = "runner"
  /\ pc = "idle" /\ cwd = "harness" /\ old_path = "harness"
  /\ cErrors = 0 /\ diags = 0 /\ okLogged = FALSE
  /\ return_code = [declared |-> FALSE, code |-> 0]
  /\ proc = Unbound /\ spawn = "none"
  /\ nOfs = 0 /\ ofsIdx = 0 /\ nPlugins = 0 /\ plgIdx = 0 /\ missingAt = 0
  /\ last = NotCalled

SuiteUnused == SuiteAtStart /\ nTests = 0 /\ failFast = FALSE

\* A mapping that declares nothing.
NoMapping == [text |-> "absent", hasStart |-> FALSE, hasCount |-> FALSE, file |-> -1]

ConstructUnused ==
  /\ caseSpec = [stdout |-> NoMapping, ofstream |-> NoMapping, setup |-> <<>>]
  /\ loaded = caseSpec
  /\ built = <<>>

ProcessUnused ==
  /\ fs = [under |-> {}, outside |-> "absent"]
  /\ cmd = <<>> /\ argv = <<>> /\ test_args = <<>> /\ resolvePc = "pending"

UndeclaredUnused == uStream = "stdout" /\ uOutput = <<>> /\ uBuilt = <<>> /\ uResults = <<>>

SetupUnused == ProcessUnused /\ UndeclaredUnused

(***************************************************************************)
(* Calls of check_streams on the same two objects.                         *)
(***************************************************************************)
Expectations ==
  [hasEmpty : BOOLEAN, empty : BOOLEAN, hasText : BOOLEAN,
   text : SeqsUpTo(TextLines, MaxLines), start : 0..MaxStart, count : -1..MaxCount]

\* A dictionary has a key or not: an absent key has one representation.
WellFormed(x) ==
  /\ ~x.hasEmpty => ~x.empty
  /\ ~x.hasText => x.text = <<>>

Receivables == [kind : {"list", "file"}, lines : SeqsUpTo(StreamLines, MaxLines)]

InitStreams ==
  /\ expected \in {x \in Expectations : WellFormed(x)}
  /\ received \in Receivables
  /\ results = <<>>
  /\ LocUnused /\ FilterUnused /\ SuiteUnused /\ ConstructUnused /\ SetupUnused

\* Iterating a file moves it past the lines read; a list is left as it is.
AfterRead(rcv, consumed) ==
  IF rcv.kind = "file"
  THEN [rcv EXCEPT !.lines = SubSeq(rcv.lines, consumed + 1, Len(rcv.lines))]
  ELSE rcv

CheckStreams ==
  /\ Len(results) < MaxCalls
  /\ LET res == check_streams(expected, received)
     IN /\ results' = Append(results, res)
        /\ received' = AfterRead(received, res.consumed)
  /\ UNCHANGED <<expected, locVars, filterVars, suiteVars, caseVars, constructVars,
                 setupVars>>

NextStreams == CheckStreams

SpecStreams == InitStreams /\ [][NextStreams]_vars

(***************************************************************************)
(* The localization of one unequal pair of lines.                          *)
(***************************************************************************)
Strings == SeqsUpTo(Chars, MaxStrLen)

InitLoc ==
  /\ locE \in Strings \cup {None}
  /\ locR \in Strings \cup {None}
  /\ locE # locR
  /\ locOff = -1
  /\ StreamsUnused /\ FilterUnused /\ SuiteUnused /\ ConstructUnused /\ SetupUnused

Localize ==
  /\ locOff = -1
  /\ locOff' = ErrorOffset(locE, locR)
  /\ UNCHANGED <<locE, locR, streamVars, filterVars, suiteVars, caseVars, constructVars,
                 setupVars>>

NextLoc == Localize

SpecLoc == InitLoc /\ [][NextLoc]_vars

(***************************************************************************)
(* One call of filter_tests.                                               *)
(***************************************************************************)
Patterns == {<<>>, <<"a">>, <<"b">>, <<"a", "b">>}

CaseNames == SeqsUpTo(Chars, MaxNameLen) \ {<<>>}

InitFilter ==
  /\ fName \in CaseNames
  /\ fIncludes \in SeqsUpTo(Patterns, MaxFilters)
  /\ fExcludes \in SeqsUpTo(Patterns, MaxFilters)
  /\ fKept = "pending"
  /\ StreamsUnused /\ LocUnused /\ SuiteUnused /\ ConstructUnused /\ SetupUnused

Filter ==
  /\ fKept = "pending"
  /\ fKept' = IF filter_tests(fName, fIncludes, fExcludes) THEN "kept" ELSE "dropped"
  /\ UNCHANGED <<fName, fIncludes, fExcludes, streamVars, locVars, suiteVars, caseVars,
                 constructVars, setupVars>>

NextFilter == Filter

SpecFilter == InitFilter /\ [][NextFilter]_vars

(***************************************************************************)
(* TestCase.execute and the suite loop of runner.test.                     *)
(*                                                                         *)
(* execute is followed statement by statement (pc). What a case declares   *)
(* and what its subprocess does are inputs: the fields read by several     *)
(* statements are chosen when the case starts or when run() returns, the   *)
(* others where the code reads them.                                       *)
(***************************************************************************)
\* Exit codes of the subprocess, and the return codes a case may declare.
ExitCodes == {0, 2}

ReturnCodes == {[declared |-> FALSE, code |-> 0]} \cup [declared : {TRUE}, code : ExitCodes]

\* 'self.return_code and ...': a declared code that is true as a condition.
ReturnCodeChecked(rc) == rc.declared /\ rc.code # 0

\* ReturnValue without the clamp: execute returns its number of errors.
ReturnValue_Count(errs) == errs

\* int(errors > 0)
ReturnValue(errs) == IF errs > 0 THEN 1 ELSE 0

\* ChangeDirectory.__exit__ without the chdir: the directory stays where the with
\* block left it.
ExitDirectory_Stays(saved, current) == current

\* ChangeDirectory.__exit__: os.chdir(self.old_path), whatever the block did.
ExitDirectory(saved, current) == saved

\* The statements of execute after the with statement is entered, in the order
\* of the source.
Phases == <<"run", "rc", "open", "stdout", "stderr", "ofstreams", "plugins", "return">>

Rank(phase) == CHOOSE k \in 1..Len(Phases) : Phases[k] = phase

\* PhaseAfter with a return at the first failed check.
PhaseAfter_StopOnFailure(phase, failed) ==
  IF failed THEN "return" ELSE Phases[Rank(phase) + 1]

\* The statement that follows a phase that ended without an exception: the next
\* one of the source, whether the phase counted an error or not (execute has no
\* return before its last line).
PhaseAfter(phase, failed) == Phases[Rank(phase) + 1]

\* HandleMissing that starts the count again: the errors found before are lost.
HandleMissing_Reset(errs) == 1

\* The handler of FileNotFoundError around the ofstream loop: errors += 1.
HandleMissing(errs) == errs + 1

\* Fail-fast: the suite stops after a case that reports an error.
StopAfter(ret) == failFast /\ ret > 0

\* The expectations and outputs of the streams of an executed case.
CaseExpectations ==
  {x \in [hasEmpty : BOOLEAN, empty : BOOLEAN, hasText : BOOLEAN,
          text : SeqsUpTo(StreamLines, 1), start : {0}, count : {-1}] : WellFormed(x)}

CaseOutputs == SeqsUpTo(StreamLines, 1)

\* Bytes read from a file opened 'rb': no str line equals them, and they differ
\* from a str at its first character.
AsBytes(lines) == [k \in 1..Len(lines) |-> <<"bytes">> \o lines[k]]

\* The expectation _setup_ostream gives a dictionary that declares no text, start,
\* count or empty.
BareExpectation ==
  [hasEmpty |-> FALSE, empty |-> FALSE, hasText |-> FALSE, text |-> <<>>,
   start |-> 0, count |-> -1]

\* One declared ofstream and what the subprocess left of it: the reference file
\* ('file') is not declared ("none"), "found" or "missing"; the test-file exists or
\* not; bbox is whether the two images differ. An image is compared with its
\* reference file; the fields a type does not read have one value.
ImageOfstreams ==
  [type : {"image"}, ref : {"found", "missing"}, exists : BOOLEAN,
   exp : {BareExpectation}, refLines : {<<>>}, lines : {<<>>}, bbox : BOOLEAN]

LineOfstreams ==
  [type : {"text", "binary"}, ref : {"none"}, exists : {TRUE},
   exp : CaseExpectations, refLines : {<<>>}, lines : CaseOutputs, bbox : {FALSE}]
  \cup
  [type : {"text", "binary"}, ref : {"found"}, exists : {TRUE},
   exp : {x \in CaseExpectations : ~x.hasText}, refLines : CaseOutputs,
   lines : CaseOutputs, bbox : {FALSE}]
  \cup
  [type : {"text", "binary"}, ref : {"none", "found", "missing"}, exists : {FALSE},
   exp : {BareExpectation}, refLines : {<<>>}, lines : {<<>>}, bbox : {FALSE}]
  \cup
  [type : {"text", "binary"}, ref : {"missing"}, exists : {TRUE},
   exp : {BareExpectation}, refLines : {<<>>}, lines : {<<>>}, bbox : {FALSE}]

Ofstreams == ImageOfstreams \cup LineOfstreams

\* The body of the loop over self.ofstreams for one ofstream: the exception it
\* raises ("none": it goes on), whether the test-file was there, and the errors
\* and diagnostics it adds.
CheckOfstream(o) ==
  IF o.ref = "missing" \/ ~o.exists
  THEN [exc |-> "FileNotFoundError", produced |-> o.exists, errors |-> 0, diags |-> 0]
  ELSE IF o.type = "image"
  THEN [exc |-> "none", produced |-> TRUE, errors |-> IF o.bbox THEN 1 ELSE 0, diags |-> 0]
  ELSE LET e == IF o.ref = "found"
                THEN [o.exp EXCEPT !.hasText = TRUE, !.text = o.refLines]
                ELSE o.exp
           got == IF o.type = "binary" /\ o.ref = "none" THEN AsBytes(o.lines) ELSE o.lines
           res == check_streams(e, [kind |-> "file", lines |-> got])
       IN [exc |-> res.exc, produced |-> TRUE, errors |-> res.result, diags |-> res.result]

\* What the check of an ofstream can come to, over every declared ofstream and
\* everything the subprocess can leave of it.
OfstreamOutcomes == {CheckOfstream(o) : o \in Ofstreams}

\* What check_streams can come to on stdout or stderr, over every expectation and
\* every output.
StreamOutcomes ==
  {check_streams(exp, [kind |-> "list", lines |-> lines]) :
     exp \in CaseExpectations, lines \in CaseOutputs}

\* The parts of the state execute and the suite loop leave alone.
OthersUnchanged == UNCHANGED <<streamVars, locVars, filterVars, constructVars, setupVars>>

\* execute goes on to its next statement.
Goes(nextPc, addErrors, addDiags) ==
  /\ pc' = nextPc
  /\ cErrors' = cErrors + addErrors
  /\ diags' = diags + addDiags
  /\ UNCHANGED <<cwd, old_path, okLogged, return_code, nOfs, nPlugins, last, suiteVars>>
  /\ OthersUnchanged

\* An exception leaves execute: ChangeDirectory.__exit__ restores the directory,
\* and nothing in runner.test catches it.
Raises(exc) ==
  /\ pc' = "idle"
  /\ cwd' = ExitDirectory(old_path, cwd)
  /\ last' = [how |-> "raised", value |-> 0, exc |-> exc]
  /\ suitePc' = "crashed"
  /\ UNCHANGED <<cErrors, diags, old_path, okLogged, return_code, nOfs, nPlugins,
                 nTests, failFast, started, errors, history, tally, exitValue, logLabel>>
  /\ OthersUnchanged

InitSuite ==
  /\ SuiteAtStart
  /\ nTests \in 0..MaxTests
  /\ failFast \in BOOLEAN
  /\ StreamsUnused /\ LocUnused /\ FilterUnused /\ ConstructUnused /\ SetupUnused

\* for test in tests: test.execute(), up to 'with chdir.ChangeDirectory(...)'.
ExecStart ==
  /\ suitePc = "loop" /\ pc = "idle" /\ started < nTests
  /\ started' = started + 1
  /\ logLabel' = "case"
  /\ old_path' = cwd
  /\ cwd' = "test_home"
  /\ cErrors' = 0 /\ diags' = 0 /\ okLogged' = FALSE
  /\ return_code' \in ReturnCodes
  /\ nOfs' \in 0..MaxOfstreams
  /\ nPlugins' \in 0..MaxPlugins
  /\ proc' = Unbound /\ spawn' = "none" /\ ofsIdx' = 0 /\ plgIdx' = 0 /\ missingAt' = 0
  /\ last' = NotCalled
  /\ pc' = "run"
  /\ UNCHANGED <<suitePc, nTests, failFast, errors, history, tally, exitValue>>
  /\ OthersUnchanged

\* run() returns a completed process.
RunCompletes ==
  /\ pc = "run"
  /\ \E code \in ExitCodes : proc' = [bound |-> TRUE, returncode |-> code]
  /\ spawn' = "ok"
  /\ Goes(PhaseAfter("run", FALSE), 0, 0)
  /\ UNCHANGED <<ofsIdx, plgIdx, missingAt>>

\* run() raises TimeoutExpired: the handler logs and counts it; proc stays unbound.
RunTimesOut ==
  /\ pc = "run"
  /\ spawn' = "timeout"
  /\ Goes(PhaseAfter("run", TRUE), 1, 1)
  /\ UNCHANGED <<proc, ofsIdx, plgIdx, missingAt>>

\* run() cannot spawn the command: FileNotFoundError, which is not TimeoutExpired.
RunCannotSpawn ==
  /\ pc = "run"
  /\ spawn' = "nospawn"
  /\ Raises("FileNotFoundError")
  /\ UNCHANGED <<proc, ofsIdx, plgIdx, missingAt>>

\* if self.return_code and int(self.return_code) != proc.returncode
CheckReturnCode ==
  /\ pc = "rc"
  /\ IF ~ReturnCodeChecked(return_code) THEN Goes(PhaseAfter("rc", FALSE), 0, 0)
     ELSE IF ~proc.bound THEN Raises("UnboundLocalError")
     ELSE IF return_code.code # proc.returncode THEN Goes(PhaseAfter("rc", TRUE), 1, 1)
     ELSE Goes(PhaseAfter("rc", FALSE), 0, 0)
  /\ UNCHANGED <<proc, spawn, ofsIdx, plgIdx, missingAt>>

\* if 'file' in self.stdout: open(...); if 'file' in self.stderr: open(...)
OpenReferences ==
  /\ pc = "open"
  /\ \E outFile, errFile \in {"none", "found", "missing"} :
       IF outFile = "missing" \/ errFile = "missing"
       THEN Raises("FileNotFoundError")
       ELSE Goes(PhaseAfter("open", FALSE), 0, 0)
  /\ UNCHANGED <<proc, spawn, ofsIdx, plgIdx, missingAt>>

\* errors += self.check_streams(name, expectation, proc.<name>.splitlines(...))
CheckStream(name) ==
  /\ IF ~proc.bound THEN Raises("UnboundLocalError")
     ELSE \E res \in StreamOutcomes :
            IF res.exc # "none" THEN Raises(res.exc)
            ELSE Goes(PhaseAfter(name, res.result > 0), res.result, res.result)
  /\ UNCHANGED <<proc, spawn, ofsIdx, plgIdx, missingAt>>

CheckStdout == pc = "stdout" /\ CheckStream("stdout")

CheckStderr == pc = "stderr" /\ CheckStream("stderr")

\* One turn of 'for ofstream in self.ofstreams' inside the try; FileNotFoundError
\* ends the loop in the handler, which logs and counts it.
CheckNextOfstream ==
  /\ pc = "ofstreams" /\ ofsIdx < nOfs
  /\ \E out \in OfstreamOutcomes :
       IF out.exc = "none"
       THEN /\ Goes("ofstreams", out.errors, out.diags)
            /\ ofsIdx' = ofsIdx + 1
            /\ UNCHANGED missingAt
       ELSE IF out.exc = "FileNotFoundError"
       THEN /\ Goes(PhaseAfter("ofstreams", TRUE), HandleMissing(cErrors) - cErrors, 1)
            /\ missingAt' = IF ~out.produced THEN ofsIdx + 1 ELSE missingAt
            /\ UNCHANGED ofsIdx
       ELSE Raises(out.exc) /\ UNCHANGED <<ofsIdx, missingAt>>
  /\ UNCHANGED <<proc, spawn, plgIdx>>

OfstreamsDone ==
  /\ pc = "ofstreams" /\ ofsIdx = nOfs
  /\ Goes(PhaseAfter("ofstreams", FALSE), 0, 0)
  /\ UNCHANGED <<proc, spawn, ofsIdx, plgIdx, missingAt>>

\* One turn of 'for extra_test in self.extra_tests': the plugin's test() returns
\* true or false, or loading or calling it raises.
RunNextPlugin ==
  /\ pc = "plugins" /\ plgIdx < nPlugins
  /\ \E outcome \in {"true", "false", "raises"} :
       IF outcome = "raises" THEN Raises("Exception") /\ UNCHANGED plgIdx
       ELSE /\ Goes("plugins", IF outcome = "false" THEN 1 ELSE 0,
                    IF outcome = "false" THEN 1 ELSE 0)
            /\ plgIdx' = plgIdx + 1
  /\ UNCHANGED <<proc, spawn, ofsIdx, missingAt>>

PluginsDone ==
  /\ pc = "plugins" /\ plgIdx = nPlugins
  /\ Goes(PhaseAfter("plugins", FALSE), 0, 0)
  /\ UNCHANGED <<proc, spawn, ofsIdx, plgIdx, missingAt>>

\* 'OK!' when there is no error, the directory restored, return int(errors > 0);
\* in the loop: errors += test.execute(), the log label reset.
ExecReturn ==
  /\ pc = "return"
  /\ okLogged' = (cErrors = 0)
  /\ cwd' = ExitDirectory(old_path, cwd)
  /\ LET ret == ReturnValue(cErrors)
     IN /\ last' = [how |-> "returned", value |-> ret, exc |-> "none"]
        /\ errors' = errors + ret
        /\ suitePc' = IF StopAfter(ret) THEN "break" ELSE "loop"
  /\ history' = Append(history, Min(cErrors, 2))
  /\ logLabel' = "runner"
  /\ pc' = "idle"
  /\ UNCHANGED <<nTests, failFast, started, tally, exitValue, old_path, cErrors, diags,
                 return_code, proc, spawn, nOfs, ofsIdx, nPlugins, plgIdx, missingAt>>
  /\ OthersUnchanged

\* After the loop: the tally line, and return errors (to sys.exit).
Tally ==
  /\ pc = "idle"
  /\ \/ suitePc = "loop" /\ started = nTests
     \/ suitePc = "break"
  /\ tally' = nTests - errors
  /\ exitValue' = errors
  /\ suitePc' = "done"
  /\ UNCHANGED <<nTests, failFast, started, errors, history, logLabel, caseVars>>
  /\ OthersUnchanged

Next ==
  \/ ExecStart
  \/ RunCompletes
  \/ RunTimesOut
  \/ RunCannotSpawn
  \/ CheckReturnCode
  \/ OpenReferences
  \/ CheckStdout
  \/ CheckStderr
  \/ CheckNextOfstream
  \/ OfstreamsDone
  \/ RunNextPlugin
  \/ PluginsDone
  \/ ExecReturn
  \/ Tally

Spec == InitSuite /\ [][Next]_vars

(***************************************************************************)
(* The construction of a TestCase from the mappings of a case, and what     *)
(* execute does to those mappings.                                          *)
(*                                                                         *)
(* A mapping is the dictionary given for stdout or for an ofstream: its    *)
(* text is absent, a str, a list of lines or an open file; start and count *)
(* are present or not; file is absent (-1) or a path, of which the number  *)
(* of '../..' joined in front of it is kept. stderr is set up as stdout is.*)
(***************************************************************************)
\* What a setup command does when it is run.
SetupOutcomes == {"ok", "nonzero", "nospawn"}

Mappings ==
  [text : {"absent", "str"}, hasStart : BOOLEAN, hasCount : BOOLEAN, file : {-1, 0}]

\* _setup_ostream on a dictionary: the text is split into lines, start and count
\* get their defaults, all in the dictionary passed in, which is returned. A text
\* that is not a str has no splitlines.
_setup_ostream(stream) ==
  IF stream.text \in {"list", "file object"}
  THEN [exc |-> "AttributeError", spec |-> stream]
  ELSE [exc |-> "none",
        spec |-> [stream EXCEPT !.text = IF @ = "str" THEN "list" ELSE @,
                                !.hasStart = TRUE, !.hasCount = TRUE]]

\* stream['file'] = os.path.join('..', '..', stream['file'])
JoinedFile(file) == IF file = -1 THEN file ELSE file + 1

_setup_ofstream(stream) == _setup_ostream([stream EXCEPT !.file = JoinedFile(@)])

\* The loop over self.setup from the i-th command on: run() returns whatever the
\* command's exit code is, and raises when the command cannot be spawned.
RECURSIVE RunSetup(_, _)
RunSetup(setup, i) ==
  IF i > Len(setup) THEN [exc |-> "none", ran |-> Len(setup)]
  ELSE IF setup[i] = "nospawn" THEN [exc |-> "FileNotFoundError", ran |-> i - 1]
  ELSE RunSetup(setup, i + 1)

\* What a construction came to: the exception that left __init__ ("none": the
\* TestCase exists), its expectations, and the setup commands that completed.
Built(exc, out, ofs, ran) == [exc |-> exc, stdout |-> out, ofstream |-> ofs, setupRan |-> ran]

InitConstruct ==
  /\ caseSpec \in [stdout : Mappings, ofstream : Mappings,
                    setup : SeqsUpTo(SetupOutcomes, MaxSetup)]
  /\ loaded = caseSpec
  /\ built = <<>>
  /\ StreamsUnused /\ LocUnused /\ FilterUnused /\ SuiteUnused /\ SetupUnused

\* TestCase.__init__ on the mappings of caseSpec.
Construct ==
  /\ Len(built) < MaxBuilds
  /\ LET out == _setup_ostream(caseSpec.stdout)
         ofs == _setup_ofstream(caseSpec.ofstream)
         ran == RunSetup(caseSpec.setup, 1)
     IN IF out.exc # "none"
        THEN /\ built' = Append(built, Built(out.exc, NoMapping, NoMapping, 0))
             /\ caseSpec' = [caseSpec EXCEPT !.stdout = out.spec]
        ELSE IF ofs.exc # "none"
        THEN /\ built' = Append(built, Built(ofs.exc, out.spec, NoMapping, 0))
             /\ caseSpec' = [caseSpec EXCEPT !.stdout = out.spec, !.ofstream = ofs.spec]
        ELSE /\ built' = Append(built, Built(ran.exc, out.spec, ofs.spec, ran.ran))
             /\ caseSpec' = [caseSpec EXCEPT !.stdout = out.spec, !.ofstream = ofs.spec]
  /\ UNCHANGED <<loaded, streamVars, locVars, filterVars, suiteVars, caseVars, setupVars>>

\* The text execute gives a mapping that names a reference file.
Opened(stream) == IF stream.file = -1 THEN stream ELSE [stream EXCEPT !.text = "file object"]

\* execute of the TestCase built last, as far as the mappings go: it opens the
\* reference file of stdout and then that of the ofstream and keeps each open
\* file as the mapping's text; it may end before either.
ExecuteOpens ==
  /\ built # <<>> /\ built[Len(built)].exc = "none"
  /\ \E n \in 0..2 :
       caseSpec' = [caseSpec EXCEPT
                      !.stdout = IF n >= 1 THEN Opened(@) ELSE @,
                      !.ofstream = IF n >= 2 THEN Opened(@) ELSE @]
  /\ UNCHANGED <<loaded, built, streamVars, locVars, filterVars, suiteVars, caseVars,
                 setupVars>>

NextConstruct ==
  \/ Construct
  \/ ExecuteOpens

SpecConstruct == InitConstruct /\ [][NextConstruct]_vars

(***************************************************************************)
(* TestCase._setup_test_process.                                           *)
(*                                                                         *)
(* A token is a path, kept as the sequence of its components: a relative   *)
(* name has one, the empty string none, and an absolute path begins with   *)
(* "/". The file system says which relative names exist under the suite    *)
(* root (test_home/../..), and whether the one absolute path the tokens    *)
(* can name is absent, a file, or a symbolic link to another file.         *)
(***************************************************************************)
\* The suite root, test_home/../.., as an absolute path.
Root == <<"/", "suite">>

\* The names that may exist under the suite root.
RelNames == {<<"prog">>, <<"data">>}

\* An absolute path outside the suite root, and the file it links to when it is
\* a symbolic link.
OutsidePath == <<"/", "bin", "sh">>

LinkTarget == <<"/", "usr", "bin", "dash">>

\* A run of whitespace in a command string.
Blank == <<" ">>

\* The words of a command string, and the arguments of an argv: names, a flag,
\* an absolute path and, in an argv, the empty string.
Words == RelNames \cup {<<"--x">>, OutsidePath}

Arguments == Words \cup {<<>>}

\* cmd.split(): the words of the command, without the whitespace between them.
split(command) == SelectSeq(command, LAMBDA part : part # Blank)

IsAbsolute(token) == token # <<>> /\ token[1] = "/"

\* pathlib.Path(test_home, '..', '..', sp): an absolute sp replaces what is before
\* it, and an empty sp adds nothing.
JoinRoot(token) == IF IsAbsolute(token) THEN token ELSE Root \o token

\* sp.exists()
PathExists(files, path) ==
  \/ path = Root
  \/ \E name \in files.under : path = Root \o name
  \/ path = OutsidePath /\ files.outside # "absent"

\* sp.resolve(): the absolute path with symbolic links followed.
Resolved(files, path) ==
  IF path = OutsidePath /\ files.outside = "link" THEN LinkTarget ELSE path

\* The loop over enumerate(splexe): a token whose joined path exists is replaced
\* by the resolved path, in place.
_setup_test_process(files, command, arguments) ==
  LET splexe == split(command) \o arguments
  IN [idx \in 1..Len(splexe) |->
        LET sp == JoinRoot(splexe[idx])
        IN IF PathExists(files, sp) THEN Resolved(files, sp) ELSE splexe[idx]]

FileSystems == [under : SUBSET RelNames, outside : {"absent", "file", "link"}]

InitProcess ==
  /\ fs \in FileSystems
  /\ cmd \in {c \in SeqsUpTo(Words \cup {Blank}, MaxCmd) : split(c) # <<>>}
  /\ argv \in SeqsUpTo(Arguments, MaxArgv)
  /\ test_args = <<>>
  /\ resolvePc = "pending"
  /\ UndeclaredUnused
  /\ StreamsUnused /\ LocUnused /\ FilterUnused /\ SuiteUnused /\ ConstructUnused

\* self.test_args = self._setup_test_process(self.exe, self.argv)
SetupTestProcess ==
  /\ resolvePc = "pending"
  /\ test_args' = _setup_test_process(fs, cmd, argv)
  /\ resolvePc' = "done"
  /\ UNCHANGED <<fs, cmd, argv, undeclaredVars, streamVars, locVars, filterVars,
                 suiteVars, caseVars, constructVars>>

NextProcess == SetupTestProcess

SpecProcess == InitProcess /\ [][NextProcess]_vars

(***************************************************************************)
(* A stream for which a case declares nothing: the default runner.test     *)
(* passes, the expectation the constructor makes of it, and the check      *)
(* execute makes with it. A string is a sequence of characters, of which   *)
(* "\n" ends a line.                                                       *)
(***************************************************************************)
\* test.get('stdout', ''), test.get('stderr', ''): the empty string.
Undeclared == <<>>

\* The characters a subprocess writes.
OutputChars == {"a", "\n"}

\* The length of the first line of a string that is not empty, its end included.
FirstLineLen(str) ==
  IF \E k \in 1..Len(str) : str[k] = "\n"
  THEN CHOOSE k \in 1..Len(str) : str[k] = "\n" /\ \A j \in 1..(k - 1) : str[j] # "\n"
  ELSE Len(str)

\* str.splitlines(keepends=True)
RECURSIVE splitlines(_)
splitlines(str) ==
  IF str = <<>> THEN <<>>
  ELSE LET k == FirstLineLen(str)
       IN <<SubSeq(str, 1, k)>> \o splitlines(SubSeq(str, k + 1, Len(str)))

\* _setup_ostream_str that leaves the dictionary without a text.
_setup_ostream_str_NoText(str) ==
  [hasEmpty |-> FALSE, empty |-> FALSE, hasText |-> FALSE, text |-> <<>>,
   start |-> 0, count |-> -1]

\* _setup_ostream on a str: a new dictionary with the lines of the str as its
\* text and the defaults of start and count.
_setup_ostream_str(str) ==
  [hasEmpty |-> FALSE, empty |-> FALSE, hasText |-> TRUE, text |-> splitlines(str),
   start |-> 0, count |-> -1]

InitUndeclared ==
  /\ uStream \in {"stdout", "stderr"}
  /\ uOutput \in SeqsUpTo(OutputChars, MaxOutLen)
  /\ uBuilt = <<>>
  /\ uResults = <<>>
  /\ ProcessUnused
  /\ StreamsUnused /\ LocUnused /\ FilterUnused /\ SuiteUnused /\ ConstructUnused

\* runner.test builds the case: self.stdout = self._setup_ostream(stdout), and the
\* same for stderr, with the default of the undeclared stream.
ConstructUndeclared ==
  /\ uBuilt = <<>>
  /\ uBuilt' = <<_setup_ostream_str(Undeclared)>>
  /\ UNCHANGED <<uStream, uOutput, uResults, processVars, streamVars, locVars,
                 filterVars, suiteVars, caseVars, constructVars>>

\* execute: errors += self.check_streams(name, expectation,
\* proc.<name>.splitlines(keepends=True))
CheckUndeclared ==
  /\ uBuilt # <<>> /\ uResults = <<>>
  /\ uResults' = <<check_streams(uBuilt[1], [kind |-> "list", lines |-> splitlines(uOutput)])>>
  /\ UNCHANGED <<uStream, uOutput, uBuilt, processVars, streamVars, locVars,
                 filterVars, suiteVars, caseVars, constructVars>>

NextUndeclared ==
  \/ ConstructUndeclared
  \/ CheckUndeclared

SpecUndeclared == InitUndeclared /\ [][NextUndeclared]_vars

(***************************************************************************)
(* Properties of check_streams (SpecStreams).                              *)
(***************************************************************************)
\* The first call on a list of lines has been made.
CalledOnList == Len(results) >= 1 /\ received.kind = "list"

Passed(res) == res.exc = "none" /\ res.result = 0

Failed(res) == res.exc = "none" /\ res.result = 1

\* C1 (as claimed): for every list A of actual lines, every start s < len(A) and
\* every count c >= 1 with s + c <= len(A), the expectation {start: s, count: c,
\* text: the c lines A[s..s+c-1]} yields 0.
C1_WindowTextPasses ==
  ( /\ CalledOnList
    /\ expected.hasText /\ ~expected.hasEmpty
    /\ expected.start < Len(received.lines)
    /\ expected.count >= 1
    /\ expected.start + expected.count <= Len(received.lines)
    /\ expected.text = SubSeq(received.lines, expected.start + 1,
                              expected.start + expected.count) )
  => Passed(results[1])

\* C5: an expectation with empty=true and a non-empty list of actual lines yields
\* 1, whatever text (present or absent), start and count are.
C5_EmptyTrueNonemptyFails ==
  (CalledOnList /\ expected.hasEmpty /\ expected.empty /\ Len(received.lines) > 0)
  => \A k \in 1..Len(results) : Failed(results[k])

\* C5's case: empty=true, and actual lines that equal the expected text line by
\* line, so that only the emptiness test can fail.
C5_Witness ==
  /\ CalledOnList /\ expected.hasEmpty /\ expected.empty
  /\ expected.hasText /\ expected.text = received.lines /\ Len(received.lines) = MaxLines
  /\ expected.start = 0 /\ expected.count = -1
  /\ Failed(results[1])

\* The lines at index i of the expected text and of the actual lines are equal
\* (an index past the end of both holds no line on either side).
SameLineAt(i) == ItemOrNone(expected.text, i) = ItemOrNone(received.lines, i)

LastIndex == Max(Len(expected.text), Len(received.lines)) - 1

\* The window the claim names: [start, start+count), the whole tail when count = -1.
ClaimedWindow == {i \in 0..LastIndex :
                    i >= expected.start
                    /\ (expected.count # -1 => i < expected.start + expected.count)}

\* The indices the loop compares: [start, start+count) for count >= 1, and the
\* whole tail from start otherwise.
ComparedWindow == {i \in 0..LastIndex :
                     i >= expected.start
                     /\ (expected.count >= 1 => i < expected.start + expected.count)}

\* C8 (as claimed): when expected.text and the actual lines hold equal lines at
\* every index of the window, the result is 0 whatever the other lines are (and
\* whatever empty is), and a second call on the same inputs returns the same.
C8_EqualWindowPasses ==
  (CalledOnList /\ expected.hasText /\ \A i \in ClaimedWindow : SameLineAt(i))
  => /\ Passed(results[1])
     /\ Len(results) >= 2 => results[2] = results[1]

\* C8 (amended): when no emptiness assertion fails and expected.text and the
\* actual lines hold equal lines at every index the loop compares, the result is
\* 0 whatever the lines before start and after the window are, and a second call
\* on the same lists returns the same.
C8_EqualWindowPassesAmended ==
  ( /\ CalledOnList /\ expected.hasText
    /\ ~(expected.hasEmpty /\ expected.empty /\ Len(received.lines) > 0)
    /\ ~(expected.hasEmpty /\ ~expected.empty /\ Len(received.lines) = 0)
    /\ \A i \in ComparedWindow : SameLineAt(i) )
  => /\ Passed(results[1])
     /\ Len(results) >= 2 => results[2] = results[1]

\* C8's case: a window of one line in the middle, equal on both sides, with
\* different lines before and after it, compared twice.
C8_Witness ==
  /\ Len(results) = 2 /\ received.kind = "list"
  /\ expected.hasText /\ expected.start = 1 /\ expected.count = 1
  /\ Len(expected.text) = 3 /\ Len(received.lines) = 3
  /\ ~SameLineAt(0) /\ SameLineAt(1) /\ ~SameLineAt(2)
  /\ Passed(results[1]) /\ Passed(results[2])

\* C12 (as claimed): when the expectation declares empty=true and the actual
\* lines are empty, or empty=false and the actual lines are not empty, the result
\* is 0 whatever text, start and count are: no line is compared.
C12_ResolvedEmptinessPasses ==
  ( /\ CalledOnList /\ expected.hasEmpty
    /\ expected.empty <=> Len(received.lines) = 0 )
  => Passed(results[1])

\* C13 (as claimed): for every count >= 0, count = 0 included, only the pairs at
\* the indices of [start, start+count) are compared: when those are equal (and
\* no emptiness is declared), a difference or a missing line at an index from
\* start+count on does not make the result 1.
C13_CountBoundsComparison ==
  ( /\ CalledOnList /\ expected.hasText /\ ~expected.hasEmpty
    /\ expected.count >= 0
    /\ \A i \in expected.start..(expected.start + expected.count - 1) : SameLineAt(i) )
  => Passed(results[1])

\* Index i is inside the window the claim names, exactly one of the two sides has
\* a line there, and the window's lines before i are equal.
FirstOneSidedAt(i) ==
  /\ i >= expected.start
  /\ expected.count >= 0 => i < expected.start + expected.count
  /\ (i < Len(expected.text)) # (i < Len(received.lines))
  /\ \A j \in expected.start..(i - 1) : SameLineAt(j)

\* C14 (as claimed): whenever exactly one of expected.text and the actual lines
\* has a line at an index i of the compared window and the window's earlier lines
\* are equal, the result is 1, found at line i, with the missing side taken as
\* the empty string when the offset is computed: offset 0.
C14_MissingSideFails ==
  \A i \in 0..LastIndex :
    (CalledOnList /\ expected.hasText /\ ~expected.hasEmpty /\ FirstOneSidedAt(i))
    => /\ Failed(results[1])
       /\ results[1].line = i
       /\ results[1].offset = 0

\* The number of lines the file held when it was opened: what the one call made
\* so far consumed, and what is left.
ProducedLines == Len(received.lines) + results[1].consumed

\* C19 (as claimed): for a text ofstream, whose produced file is passed to
\* check_streams as an open file, empty=true fails if and only if the file has
\* content, and empty=false fails if the file has no content.
C19_FileEmptiness ==
  (Len(results) = 1 /\ received.kind = "file" /\ expected.hasEmpty /\ expected.hasText)
  => /\ expected.empty => (Failed(results[1]) <=> ProducedLines > 0)
     /\ (~expected.empty /\ ProducedLines = 0) => Failed(results[1])

(***************************************************************************)
(* Properties of the mismatch localization (SpecLoc).                      *)
(***************************************************************************)
\* The two strings differ at index k: they hold different characters there, or
\* exactly one of them ends before it.
DiffersAt(e, r, k) ==
  IF k < Len(e) /\ k < Len(r) THEN e[k + 1] # r[k + 1] ELSE (k < Len(e)) # (k < Len(r))

\* C6: for every unequal pair of strings the scan ends, and the offset it reports
\* is the smallest index at which the two strings differ (0 for a first-character
\* mismatch, len(shorter) when one is a strict prefix of the other).
C6_OffsetIsFirstDifference ==
  (locOff # -1 /\ locE # None /\ locR # None)
  => /\ locOff # Hang
     /\ locOff \in 0..Min(Len(locE), Len(locR))
     /\ DiffersAt(locE, locR, locOff)
     /\ \A j \in 0..(locOff - 1) : ~DiffersAt(locE, locR, j)

\* C6's case: a string of exactly one stride that is a strict prefix of the other;
\* the offset is the length of the shorter.
C6_Witness ==
  /\ locE # None /\ locR # None
  /\ Len(locE) = Stride /\ Len(locR) = Stride + 1
  /\ SubSeq(locR, 1, Stride) = locE
  /\ locOff = Stride

(***************************************************************************)
(* Properties of filter_tests (SpecFilter).                                *)
(***************************************************************************)
MatchesSome(patterns) == \E i \in 1..Len(patterns) : re_search(patterns[i], fName)

\* C7: a case is kept if and only if its name matches no exclude pattern and
\* (there are no include patterns or it matches at least one of them); a name
\* that matches both an include and an exclude pattern is dropped.
C7_FilterKeeps ==
  fKept # "pending"
  => /\ fKept = "kept" <=> (~MatchesSome(fExcludes)
                             /\ (fIncludes = <<>> \/ MatchesSome(fIncludes)))
     /\ (MatchesSome(fIncludes) /\ MatchesSome(fExcludes)) => fKept = "dropped"

\* C7's case: the name matches the first include pattern and only the last exclude
\* pattern, and is dropped.
C7_Witness ==
  /\ Len(fIncludes) = MaxFilters /\ Len(fExcludes) = MaxFilters
  /\ re_search(fIncludes[1], fName)
  /\ ~re_search(fExcludes[1], fName) /\ re_search(fExcludes[MaxFilters], fName)
  /\ fKept = "dropped"

(***************************************************************************)
(* Properties of execute and of the suite loop (Spec).                     *)
(***************************************************************************)
\* The last call of execute has ended, by a return or by an exception.
CaseEnded == pc = "idle" /\ last.how # "none"

Returned(v) == last.how = "returned" /\ last.value = v

\* The return-code check is behind the case being executed or just ended.
PastReturnCodeCheck == pc \in {"open", "stdout", "stderr", "ofstreams", "plugins", "return"}

\* C2 (as claimed): whenever an expected return code is declared (any integer,
\* 0 included) and the subprocess's exit code differs from it, the case
\* accumulates an error, and execute, when it returns, returns 1.
C2_ReturnCodeMismatchCounts ==
  (return_code.declared /\ proc.bound /\ return_code.code # proc.returncode)
  => /\ PastReturnCodeCheck => cErrors >= 1
     /\ (CaseEnded /\ last.how = "returned") => last.value = 1

\* C3 (as claimed): a case whose main subprocess exceeds its timeout completes
\* execute with the value 1 and adds at least 1 to the suite's failed count.
C3_TimeoutReturnsOne ==
  (CaseEnded /\ spawn = "timeout") => (Returned(1) /\ errors >= 1)

\* C4 (as claimed): when the main command cannot be spawned, execute does not
\* raise: the case is counted as one failed case and the suite loop goes on.
C4_UnspawnableIsOneFailure ==
  (CaseEnded /\ spawn = "nospawn") => (Returned(1) /\ suitePc # "crashed")

\* The cases that returned with at least one failed check.
FailedCases == {i \in 1..Len(history) : history[i] > 0}

C10_FailFastOrAllExecuted ==
  /\ failFast => \A i \in 1..Len(history) : history[i] > 0 => started = i
  /\ (~failFast /\ suitePc \in {"done", "crashed"}) => started = nTests

\* C11: on every exit path of execute (a return, or an exception raised by the
\* spawn, by a stream or file check or by a plugin) the working directory after
\* execute is the directory the harness had before execute was called.
C11_DirectoryRestored ==
  /\ CaseEnded => (cwd = old_path /\ cwd = "harness")
  /\ pc = "idle" => cwd = "harness"

\* C11's case: a plugin raised in the second case of the suite, after the checks
\* of the case had run in the test's directory; the directory is the harness's.
C11_Witness ==
  /\ CaseEnded /\ last.how = "raised" /\ last.exc = "Exception"
  /\ started = 2 /\ spawn = "ok" /\ cwd = "harness"

\* The checks of execute, and one step of a case whose main process completed.
Checks == {"rc", "open", "stdout", "stderr", "ofstreams", "plugins"}

\* C15, for one step: in a case whose main process completed, a step goes from a
\* check to the same check (the next ofstream, the next plugin) or to the check
\* that follows it in the order return code, stdout, stderr, ofstreams, plugins;
\* ofstreams and plugins are taken one by one in declaration order; the
\* ofstreams are left only when all are checked or one is missing, the plugins
\* only when all have run; and a step that counts an error goes on to the same
\* or the next check, never past one and never out of execute.
PhaseStep ==
  (spawn = "ok" /\ pc \in Checks)
  => /\ pc' \in Checks \cup {"return"}
        => /\ Rank(pc') \in {Rank(pc), Rank(pc) + 1}
           /\ ofsIdx' \in {ofsIdx, ofsIdx + 1}
           /\ plgIdx' \in {plgIdx, plgIdx + 1}
           /\ ofsIdx' # ofsIdx => pc = "ofstreams" /\ pc' = "ofstreams"
           /\ plgIdx' # plgIdx => pc = "plugins" /\ pc' = "plugins"
           /\ (pc = "ofstreams" /\ pc' = "plugins")
                => (ofsIdx = nOfs \/ cErrors' = cErrors + 1)
           /\ (pc = "plugins" /\ pc' = "return") => plgIdx = nPlugins
     /\ cErrors' > cErrors => pc' \in Checks \cup {"return"}
     /\ pc' # "run"

\* C15: in every run in which the main process completes, the checks are made in
\* the order return code, stdout, stderr, ofstreams in declaration order, plugins
\* in declaration order; no check starts before the main process has finished;
\* and a failed check never makes a later phase be skipped, except the rest of
\* the ofstreams after a missing file.
C15_PhaseOrder ==
  /\ [][PhaseStep]_vars
  /\ [](pc \in Checks \cup {"return"} => spawn # "none")

\* C15's case: the process completed, checks failed in at least three phases, and
\* every ofstream and plugin was still reached before execute's last statement.
C15_Witness ==
  /\ pc = "return" /\ spawn = "ok" /\ cErrors >= 3
  /\ return_code.declared /\ return_code.code # proc.returncode
  /\ nOfs = MaxOfstreams /\ ofsIdx = nOfs
  /\ nPlugins = MaxPlugins /\ plgIdx = nPlugins

\* C16, for one step: the step that finds the test-file of an ofstream missing
\* adds exactly one error to the errors found so far and goes on to the plugins.
MissingStep ==
  (missingAt' # missingAt /\ missingAt' # 0)
  => /\ cErrors' = cErrors + 1
     /\ pc' = "plugins"
     /\ missingAt' = ofsIdx + 1

\* C16: when the test-file of the k-th declared ofstream does not exist, exactly
\* one error is added for it, no ofstream declared after the k-th is checked,
\* the errors found by the ofstreams before it are kept, and the plugin checks
\* still run afterwards.
C16_MissingArtifact ==
  /\ [][MissingStep]_vars
  /\ [](missingAt # 0 => /\ ofsIdx = missingAt - 1
                         /\ cErrors >= 1
                         /\ pc \in {"plugins", "return", "idle"}
                         /\ pc = "return" => plgIdx = nPlugins)

\* C16's case: the second of three ofstreams was not produced after earlier
\* checks had failed; the third was not checked, the plugin ran, and execute is
\* at its last statement with the earlier errors and one more.
C16_Witness ==
  /\ missingAt = 2 /\ nOfs = 3 /\ ofsIdx = 1
  /\ pc = "return" /\ cErrors >= 3
  /\ nPlugins = MaxPlugins /\ plgIdx = nPlugins

\* C20 (as claimed): every increment of the case's error counter goes with a
\* failure diagnostic, 'OK!' is logged if and only if the counter is 0 when the
\* checks end, and no run returns 1 without a failure diagnostic.
C20_ErrorsHaveDiagnostics ==
  /\ cErrors <= diags
  /\ (CaseEnded /\ last.how = "returned") => (okLogged <=> cErrors = 0)
  /\ (CaseEnded /\ Returned(1)) => diags >= 1

(***************************************************************************)
(* Properties of the construction (SpecConstruct).                         *)
(***************************************************************************)
\* C17 (as claimed): for every setup command that fails, by a nonzero exit code
\* or because it cannot be spawned, construction still completes and the
\* remaining setup commands still run, in declaration order.
C17_SetupIsBestEffort ==
  Len(built) >= 1
  => /\ built[1].exc = "none"
     /\ built[1].setupRan = Len(caseSpec.setup)

\* C18 (as claimed): constructing a TestCase and executing it leave the stdout
\* and ofstream mappings passed in unchanged, and a second TestCase constructed
\* from the same mappings has the expectations of the first.
C18_SpecUnchanged ==
  /\ Len(built) >= 1
       => (caseSpec.stdout = loaded.stdout /\ caseSpec.ofstream = loaded.ofstream)
  /\ Len(built) >= 2 => built[2] = built[1]

(***************************************************************************)
(* Properties of _setup_test_process (SpecProcess).                        *)
(***************************************************************************)
\* The tokens the call was given: the words of the command, then the arguments.
GivenTokens == split(cmd) \o argv

\* The token names something that exists relative to the suite root.
NamesExisting(token) == token \in fs.under

\* C21 (as claimed): the returned list has the length and the order of the
\* command's tokens followed by argv; a token is replaced by its resolved
\* absolute path exactly when it names something that exists relative to
\* test_home/../.., and every other token (a flag, a plain argument, a path found
\* only elsewhere) is returned unchanged.
C21_OnlyExistingTokensResolved ==
  resolvePc = "done"
  => /\ Len(test_args) = Len(GivenTokens)
     /\ \A i \in 1..Len(GivenTokens) :
          test_args[i] = IF NamesExisting(GivenTokens[i])
                         THEN Root \o GivenTokens[i]
                         ELSE GivenTokens[i]

(***************************************************************************)
(* Properties of an undeclared stream (SpecUndeclared).                    *)
(***************************************************************************)
\* C22: a case that declares no stdout (or stderr) expectation gets the
\* expectation text=[], start=0, count=-1 and no emptiness setting; the check of
\* that stream is made, and returns 1 whenever the subprocess wrote at least one
\* line to the stream and 0 only when it wrote nothing.
C22_UndeclaredStreamChecked ==
  /\ uBuilt # <<>>
       => uBuilt[1] = [hasEmpty |-> FALSE, empty |-> FALSE, hasText |-> TRUE,
                       text |-> <<>>, start |-> 0, count |-> -1]
  /\ uResults # <<>>
       => /\ uResults[1].exc = "none"
          /\ uResults[1].result = IF uOutput # <<>> THEN 1 ELSE 0
          /\ uResults[1].result = 1 => uResults[1].line = 0

\* C22's case: nothing is declared for stderr, the subprocess wrote an empty
\* line and more to it, and the check returned 1.
C22_Witness ==
  /\ uStream = "stderr" /\ uBuilt # <<>> /\ uResults # <<>>
  /\ Len(uOutput) = MaxOutLen /\ uOutput[1] = "\n"
  /\ uResults[1].exc = "none" /\ uResults[1].result = 1

=============================================================================
